---- MODULE Spec2Model ----
(***************************************************************************)
(* State-machine model of the auto-registration command of watools:        *)
(*   watools/commands/events.py   auto_register                            *)
(*   watools/core/api.py          normalize_and_flatten_contacts,          *)
(*                                register_contact_to_event,               *)
(*                                register_contacts_to_event               *)
(* The remote account (event, registrations, contacts, catalogs) is the    *)
(* environment; a run of the command fetches snapshots from it, reconciles *)
(* and, when confirmed, drives the bulk registration loop.                 *)
(***************************************************************************)
EXTENDS Integers, Sequences, FiniteSets, TLC

VARIABLES
    \* ---- the remote account (environment) ----
    remoteEvent,        \* event details as the API returns them
    remoteRegs,         \* registrations of the event on the remote side, in creation order
    remoteContacts,     \* raw contact records of the account
    remoteLevels,       \* membership-level catalog
    remoteGroups,       \* member-group catalog
    \* ---- one run of auto_register ----
    run,                \* number of runs started so far
    runLimit,           \* number of runs the operator makes
    \* ---- one call of api_get_result_url ----
    poll_pc,            \* position of the call
    max_wait,           \* the argument max_wait
    first,              \* the response to the initial request
    data,               \* the local data: the response parsed last
    state,              \* the local state
    attempts,           \* the local attempts
    polled,             \* the State of each poll response, in order
    lost,               \* number of replies lost so far (calls that took effect but raised)
    pc,                 \* position of the run
    account_id,         \* ctx.obj["account_id"] is set
    event_id,           \* ctx.obj["event_id"] (NoneVal when not set)
    use_status_option,  \* the --use-status values as typed, a tuple of strings
    events_fetched,     \* the events group fetched the event list before the sub-command
    use_status,         \* parsed --use-status list
    confirm,            \* --confirm flag
    fetched,            \* sequence of the fetches completed in this run, in order
    event,              \* snapshot: event details
    default_membership_levels,  \* snapshot: ids (keys) of the level catalog, in order
    default_membergroups,       \* snapshot: ids (keys) of the group catalog, in order
    registrants,        \* snapshot: list of registration records
    contacts,           \* snapshot: normalized contacts
    membership_levels_ids,
    membergroup_ids,
    temp_ids,           \* eligible pool (set of contact ids)
    potential_registrant_ids,
    status_groups,      \* function status key -> sequence of contact ids
    registration_type_ids,
    keyIdx,             \* position in use_status of the loop at line 270
    outcome,            \* how the run ended ("running" while it has not)
    echoed,             \* per-bucket result lines printed (lines 281-282)
    \* ---- register_contacts_to_event ----
    caller,             \* "auto_register" or "direct"
    contact_ids, reg_type_id, max_retries,
    i, attempt, success, success_ids, failed_ids,
    result,             \* value returned by the last bulk call (NoneVal before)
    log,                \* calls and sleeps of the run, in order
    nbulk,              \* number of bulk calls entered in the run
    \* ---- the previous run's plan, kept for comparison ----
    prev

vars == <<remoteEvent, remoteRegs, remoteContacts, remoteLevels, remoteGroups,
          run, runLimit, poll_pc, max_wait, first, data, state, attempts, polled,
          lost, pc, account_id, event_id, use_status_option,
          events_fetched, use_status, confirm, fetched,
          event, default_membership_levels, default_membergroups,
          registrants, contacts, membership_levels_ids, membergroup_ids,
          temp_ids, potential_registrant_ids, status_groups,
          registration_type_ids, keyIdx, outcome, echoed,
          caller, contact_ids, reg_type_id, max_retries,
          i, attempt, success, success_ids, failed_ids, result, log, nbulk, prev>>

pollVars   == <<poll_pc, max_wait, first, data, state, attempts, polled>>
remoteVars == <<remoteEvent, remoteRegs, remoteContacts, remoteLevels, remoteGroups>>
argVars    == <<account_id, event_id, use_status_option, events_fetched, use_status, confirm>>
planVars   == <<membership_levels_ids, membergroup_ids, temp_ids,
                potential_registrant_ids, status_groups>>
bulkVars   == <<contact_ids, reg_type_id, max_retries, i, attempt, success,
                success_ids, failed_ids>>

----------------------------------------------------------------------------
\* the exit status of a click.BadParameter (a UsageError)
UsageExitStatus == 2

\* the exit status click gives a run ended by KeyboardInterrupt
AbortExitStatus == 1

\* Bounds of the model
MaxRuns    == 2     \* runs of the command in one behaviour
MaxBatch   == 3     \* longest contact_ids list handed directly to the bulk function
MinRetriesArg == -1 \* smallest max_retries handed directly to the bulk function
MaxRetriesArg == 3  \* largest max_retries handed directly to the bulk function
MaxWait    == 3     \* largest max_wait handed to api_get_result_url
MaxLost    == 1     \* replies of the remote side lost in one behaviour

\* Program constants
DefaultMaxRetries == 3

NoneVal == "None"       \* Python's None where the other values are strings
Missing == "Missing"    \* a key that is absent from a dict
NoneId  == 0            \* Python's None where the other values are ids (ids are positive)
EventId == 7001         \* the event the operator names with --event-id

----------------------------------------------------------------------------
\* Sequence helpers
Range(s) == {s[k] : k \in 1..Len(s)}

\* list comprehension [x for x in s if Test(x)]
RECURSIVE SelectSeqBy(_, _)
SelectSeqBy(s, keep) ==
    IF s = <<>> THEN <<>>
    ELSE (IF Head(s) \in keep THEN <<Head(s)>> ELSE <<>>) \o SelectSeqBy(Tail(s), keep)

----------------------------------------------------------------------------
\* Strings are sequences of one-character strings, so that lower() and the
\* substring test of line 250 are computed and not assumed.
UpperChars == <<"A","B","C","D","E","F","G","H","I","J","K","L","M",
                "N","O","P","Q","R","S","T","U","V","W","X","Y","Z">>
LowerChars == <<"a","b","c","d","e","f","g","h","i","j","k","l","m",
                "n","o","p","q","r","s","t","u","v","w","x","y","z">>

LowerChar(ch) ==
    IF \E k \in 1..Len(UpperChars) : UpperChars[k] = ch
    THEN LowerChars[CHOOSE k \in 1..Len(UpperChars) : UpperChars[k] = ch]
    ELSE ch

\* str.lower()
Lower(s) == [k \in 1..Len(s) |-> LowerChar(s[k])]

\* sub in s
Contains(s, sub) ==
    \E k \in 0..(Len(s) - Len(sub)) : SubSeq(s, k + 1, k + Len(sub)) = sub

AutoRegisterMarker == <<"a","u","t","o","-","r","e","g","i","s","t","e","r">>

\* "auto-register" in item["Name"].lower()
IsAutoRegisterNameCaseSensitive(name) == Contains(name, AutoRegisterMarker)
IsAutoRegisterName(name) == Contains(Lower(name), AutoRegisterMarker)

NameAutoRegister2024 == <<"A","u","t","o","-","R","e","g","i","s","t","e","r"," ","2","0","2","4">>
NameAutoRegisterVip  == <<"A","U","T","O","-","R","E","G","I","S","T","E","R","-","V","I","P">>
NameMemberAuto       == <<"M","e","m","b","e","r"," ","(","a","u","t","o","-","r","e","g","i","s","t","e","r",")">>
NameGeneral          == <<"G","e","n","e","r","a","l">>
NameAutoregister     == <<"A","u","t","o","r","e","g","i","s","t","e","r">>
NameAutoSpaceReg     == <<"A","u","t","o"," ","R","e","g","i","s","t","e","r">>

----------------------------------------------------------------------------
\* The remote accounts the model starts from.

RegType(id, name) == [Id |-> id, Name |-> name]

RegistrationTypeLists ==
    { <<>>,
      <<RegType(101, NameGeneral)>>,
      <<RegType(101, NameGeneral), RegType(104, NameAutoregister), RegType(105, NameAutoSpaceReg)>>,
      <<RegType(101, NameGeneral), RegType(102, NameAutoRegister2024)>>,
      <<RegType(103, NameAutoRegisterVip)>>,
      <<RegType(106, NameMemberAuto), RegType(101, NameGeneral)>>,
      <<RegType(102, NameAutoRegister2024), RegType(103, NameAutoRegisterVip)>>,
      <<RegType(102, NameAutoRegister2024), RegType(101, NameGeneral), RegType(106, NameMemberAuto)>> }

Item(id) == [Id |-> id]

AccessControls ==
    { [present |-> FALSE, AvailableForAnyLevel |-> FALSE, AvailableForLevels |-> <<>>,
       AvailableForAnyGroup |-> FALSE, AvailableForGroups |-> <<>>] }
    \cup
    [ present : {TRUE},
      AvailableForAnyLevel : BOOLEAN,
      AvailableForLevels   : { <<>>, <<Item(10)>> },
      AvailableForAnyGroup : BOOLEAN,
      AvailableForGroups   : { <<>>, <<Item(5)>> } ]

\* A contact's custom-field collection
GroupsField(gs)  == [SystemCode |-> "Groups", Value |-> gs]
OtherField       == [SystemCode |-> "Phone",  Value |-> <<>>]
FieldList(fs)    == [kind |-> "list", fields |-> fs]
NoFieldValues    == [kind |-> Missing, fields |-> <<>>]

RawContact(id, level, status, fv) ==
    [Id |-> id, MembershipLevel |-> level, Status |-> status, FieldValues |-> fv]
Level(id) == [isDict |-> TRUE,  Id |-> id]
NoLevel   == [isDict |-> FALSE, Id |-> NoneId]

ContactLists ==
    { <<>>,
      \* the scenario of the specification: 1 by level, 2 by group, 3 by neither
      << RawContact(1, Level(10), "Active", FieldList(<<OtherField, GroupsField(<<>>)>>)),
         RawContact(2, Level(20), "Lapsed", FieldList(<<GroupsField(<<Item(5)>>)>>)),
         RawContact(3, Level(30), "Active", FieldList(<<OtherField>>)) >>,
      \* a non-member in a group, members in both paths
      << RawContact(1, NoLevel,   Missing,  FieldList(<<GroupsField(<<Item(6), Item(5)>>)>>)),
         RawContact(2, Level(10), "Active", FieldList(<<GroupsField(<<Item(5)>>)>>)),
         RawContact(3, Level(20), "Lapsed", FieldList(<<GroupsField(<<Item(6)>>)>>)) >>,
      \* no contact carries Status or FieldValues
      << RawContact(1, Level(10), Missing, NoFieldValues),
         RawContact(2, Level(20), Missing, NoFieldValues) >>,
      \* one contact lacks FieldValues while another has them
      << RawContact(1, Level(10), "Active", NoFieldValues),
         RawContact(2, Level(20), "Active", FieldList(<<GroupsField(<<Item(5)>>)>>)) >> }

Registration(cid, rt) == [Contact |-> Item(cid), RegistrationTypeId |-> rt]

InitialRegistrations ==
    { <<>>,
      <<Registration(2, 101)>>,
      <<Registration(1, 101), Registration(3, 101)>> }

LevelCatalog == <<Item(10), Item(20)>>
GroupCatalog == <<Item(5), Item(6)>>

World(ev, regs, cs, lv, gr) ==
    [event |-> ev, regs |-> regs, contacts |-> cs, levels |-> lv, groups |-> gr]

\* an account whose only member group is 5 and an event open to level 10 and to
\* any group
ScenarioContacts ==
    << RawContact(1, Level(10), "Active", FieldList(<<OtherField, GroupsField(<<>>)>>)),
       RawContact(2, Level(20), "Lapsed", FieldList(<<GroupsField(<<Item(5)>>)>>)),
       RawContact(3, Level(30), "Active", FieldList(<<OtherField>>)) >>
\* an account in which two pending contacts share a status: an event open to any
\* level, contacts 1 and 2 Active, contact 3 Lapsed
SharedStatusContacts ==
    << RawContact(1, Level(10), "Active", FieldList(<<OtherField>>)),
       RawContact(2, Level(20), "Active", FieldList(<<GroupsField(<<Item(5)>>)>>)),
       RawContact(3, Level(10), "Lapsed", FieldList(<<OtherField>>)) >>
SharedStatusWorld ==
    World([AccessControl |-> [present |-> TRUE,
                              AvailableForAnyLevel |-> TRUE, AvailableForLevels |-> <<>>,
                              AvailableForAnyGroup |-> FALSE, AvailableForGroups |-> <<>>],
           RegistrationTypes |-> <<RegType(103, NameAutoRegisterVip)>>],
          <<>>, SharedStatusContacts, LevelCatalog, GroupCatalog)
ScenarioWorld ==
    World([AccessControl |-> [present |-> TRUE,
                              AvailableForAnyLevel |-> FALSE, AvailableForLevels |-> <<Item(10)>>,
                              AvailableForAnyGroup |-> TRUE, AvailableForGroups |-> <<>>],
           RegistrationTypes |-> <<RegType(103, NameAutoRegisterVip)>>],
          <<>>, ScenarioContacts, LevelCatalog, <<Item(5)>>)

Worlds ==
    { World([AccessControl |-> ac, RegistrationTypes |-> rts], regs, cs, LevelCatalog, GroupCatalog) :
        ac \in AccessControls, rts \in RegistrationTypeLists,
        regs \in InitialRegistrations, cs \in ContactLists }
    \cup
    \* accounts with an empty catalog
    { World([AccessControl |-> ac, RegistrationTypes |-> <<RegType(103, NameAutoRegisterVip)>>],
            <<>>, cs, lg[1], lg[2]) :
        ac \in {a \in AccessControls : a.present /\ a.AvailableForAnyLevel /\ a.AvailableForAnyGroup},
        cs \in {c \in ContactLists : Len(c) = 3},
        lg \in { <<<<>>, GroupCatalog>>, <<LevelCatalog, <<>>>>, <<<<>>, <<>>>> } }
    \cup { ScenarioWorld, SharedStatusWorld }

----------------------------------------------------------------------------
\* watools/core/api.py, normalize_and_flatten_contacts

\* all_keys holds key k when some contact of the list carries it
InAllKeys(cs, k) == \E j \in 1..Len(cs) : cs[j][k] # Missing

\* one flattened contact: contact.get(k, None) for every k of all_keys, then
\* MembershipLevelId from the MembershipLevel dict
Flatten(c, cs) ==
    [ Id     |-> c.Id,
      Status |-> IF c.Status # Missing THEN c.Status
                 ELSE IF InAllKeys(cs, "Status") THEN NoneVal ELSE Missing,
      FieldValues |->
          IF c.FieldValues.kind # Missing THEN c.FieldValues
          ELSE IF \E j \in 1..Len(cs) : cs[j].FieldValues.kind # Missing
               THEN [kind |-> NoneVal, fields |-> <<>>]
               ELSE c.FieldValues,
      MembershipLevelId |-> IF c.MembershipLevel.isDict THEN c.MembershipLevel.Id ELSE NoneId ]

normalize_and_flatten_contacts(cs) == [j \in 1..Len(cs) |-> Flatten(cs[j], cs)]

----------------------------------------------------------------------------
\* watools/commands/events.py, auto_register: the computation of lines 179-251

\* [item["Id"] for item in items]
Ids(items) == [k \in 1..Len(items) |-> items[k].Id]

\* {item["Id"]: item for item in items}.keys()
Keys(items) == Range(Ids(items))

\* lines 187-189
ResolveLevelIdsIgnoringAny(ac, allLevelIds) == Range(Ids(ac.AvailableForLevels))
ResolveLevelIds(ac, allLevelIds) ==
    IF ~ac.AvailableForAnyLevel THEN Range(Ids(ac.AvailableForLevels)) ELSE allLevelIds

\* lines 194-196
ResolveGroupIdsIgnoringAny(ac, allGroupIds) == Range(Ids(ac.AvailableForGroups))
ResolveGroupIds(ac, allGroupIds) ==
    IF ~ac.AvailableForAnyGroup THEN Range(Ids(ac.AvailableForGroups)) ELSE allGroupIds

\* line 203: contact["MembershipLevelId"] in membership_levels_ids
LevelMatchNoLevelIsAnyLevel(c, levelIds) ==
    c.MembershipLevelId = NoneId \/ c.MembershipLevelId \in levelIds
LevelMatch(c, levelIds) == c.MembershipLevelId \in levelIds

\* lines 208-214; iterating a FieldValues that is None raises TypeError
ContactInGroupRaises(c) == c.FieldValues.kind = NoneVal
contact_in_group(c, group_ids) ==
    \E f \in Range(c.FieldValues.fields) :
        /\ f.SystemCode = "Groups"
        /\ \E g \in Range(f.Value) : g.Id \in group_ids

\* [c["Id"] for c in cs if Test(c)]
RECURSIVE IdsWhere(_, _)
IdsWhere(cs, keep) ==
    IF cs = <<>> THEN <<>>
    ELSE (IF Head(cs) \in keep THEN <<Head(cs).Id>> ELSE <<>>) \o IdsWhere(Tail(cs), keep)

\* line 203
MembersIdsByLevel(cs, levelIds) == IdsWhere(cs, {c \in Range(cs) : LevelMatch(c, levelIds)})
\* line 216
MemberIdsByGroup(cs, groupIds) == IdsWhere(cs, {c \in Range(cs) : contact_in_group(c, groupIds)})

\* line 222: list(set(members_ids_by_level + member_ids_by_group))
TempIdsIntersection(cs, levelIds, groupIds) ==
    Range(MembersIdsByLevel(cs, levelIds)) \cap Range(MemberIdsByGroup(cs, groupIds))
TempIds(cs, levelIds, groupIds) ==
    Range(MembersIdsByLevel(cs, levelIds) \o MemberIdsByGroup(cs, groupIds))

\* line 219
CurrentRegistrantIds(regs) == [k \in 1..Len(regs) |-> regs[k].Contact.Id]

\* line 223
PotentialNoDiff(pool, regs) == pool
PotentialRegistrantIds(pool, regs) ==
    {cid \in pool : cid \notin Range(CurrentRegistrantIds(regs))}

\* lines 230-235: contact.get("Status", "Unknown") keys the bucket
StatusKeys == {"Active", "Lapsed", "PendingNew", "PendingRenewal", "Unknown", NoneVal}
StatusKey(c) == IF c.Status = Missing THEN "Unknown" ELSE c.Status
StatusGroupsOfFilterOnly(cs, pending) ==
    [key \in StatusKeys |->
        IF key \in Range(use_status)
        THEN IdsWhere(cs, {c \in Range(cs) : c.Id \in pending /\ StatusKey(c) = key})
        ELSE <<>>]
StatusGroups(cs, pending) ==
    [key \in StatusKeys |->
        IdsWhere(cs, {c \in Range(cs) : c.Id \in pending /\ StatusKey(c) = key})]
EmptyStatusGroups == [key \in StatusKeys |-> <<>>]

\* lines 250-251
AutoRegisterTypes(rts) ==
    SelectSeqBy(rts, {t \in Range(rts) : IsAutoRegisterName(t.Name)})

----------------------------------------------------------------------------
\* watools/commands/events.py, parse_statuses (lines 100-111)

TextActive         == <<"A","c","t","i","v","e">>
TextLapsed         == <<"L","a","p","s","e","d">>
TextPendingRenewal == <<"P","e","n","d","i","n","g","R","e","n","e","w","a","l">>
TextPendingNew     == <<"P","e","n","d","i","n","g","N","e","w">>
TextUnknown        == <<"U","n","k","n","o","w","n">>
TextActiveLower    == <<"a","c","t","i","v","e">>
TextActiveLapsed   == <<"A","c","t","i","v","e",","," ","L","a","p","s","e","d">>
TextPendingBoth    == <<"P","e","n","d","i","n","g","N","e","w"," ",",","P","e","n","d","i","n","g","R","e","n","e","w","a","l">>
TextActiveUnknown  == <<"A","c","t","i","v","e",",","U","n","k","n","o","w","n">>
TextEmpty          == <<>>

\* line 100
VALID_STATUSES_WithUnknown ==
    <<TextActive, TextLapsed, TextPendingRenewal, TextPendingNew, TextUnknown>>
VALID_STATUSES == <<TextActive, TextLapsed, TextPendingRenewal, TextPendingNew>>

\* str.split(','): the pieces between the commas; an empty string gives one empty piece
RECURSIVE Split(_, _)
Split(s, cur) ==
    IF s = <<>> THEN <<cur>>
    ELSE IF Head(s) = "," THEN <<cur>> \o Split(Tail(s), <<>>)
    ELSE Split(Tail(s), Append(cur, Head(s)))

\* str.strip(): white space removed at both ends
Whitespace == {" "}
RECURSIVE LStrip(_)
LStrip(s) == IF s # <<>> /\ Head(s) \in Whitespace THEN LStrip(Tail(s)) ELSE s
RECURSIVE RStrip(_)
RStrip(s) ==
    IF s # <<>> /\ s[Len(s)] \in Whitespace THEN RStrip(SubSeq(s, 1, Len(s) - 1)) ELSE s
Strip(s) == RStrip(LStrip(s))

\* line 106: [v.strip() for v in value.split(',')]
PartsOfValue(value) == LET pieces == Split(value, <<>>)
                       IN  [k \in 1..Len(pieces) |-> Strip(pieces[k])]
\* lines 105-110: the parts of all values, in order
RECURSIVE Parts(_)
Parts(values) ==
    IF values = <<>> THEN <<>> ELSE PartsOfValue(Head(values)) \o Parts(Tail(values))

\* the status a text spells, as the keys of the buckets name it
StatusOfText(t) ==
    CASE t = TextActive         -> "Active"
      [] t = TextLapsed         -> "Lapsed"
      [] t = TextPendingRenewal -> "PendingRenewal"
      [] t = TextPendingNew     -> "PendingNew"
      [] t = TextUnknown        -> "Unknown"

\* lines 102-111: BadParameter on the first part outside VALID_STATUSES
parse_statuses(values) ==
    LET parts == Parts(values)
    IN  IF \E k \in 1..Len(parts) : parts[k] \notin Range(VALID_STATUSES)
        THEN [raised |-> TRUE, result |-> <<>>]
        ELSE [raised |-> FALSE, result |-> [k \in 1..Len(parts) |-> StatusOfText(parts[k])]]

\* the --use-status values an operator types: accepted ones ...
ValidOptions ==
    { <<TextActive>>, <<TextLapsed>>, <<TextActiveLapsed>>, <<TextActive, TextActive>>,
      <<TextPendingBoth>> }
\* ... and rejected ones
InvalidOptions ==
    { <<TextUnknown>>, <<TextActiveLower>>, <<TextActiveUnknown>>, <<TextEmpty>> }

----------------------------------------------------------------------------
\* Initial states

\* the filters the accepted options parse to
UseStatusChoices == {parse_statuses(o).result : o \in ValidOptions}

\* the command line of one run: (account id set, event id, --use-status, --confirm)
Args(acc, ev, us, cf) == [account_id |-> acc, event_id |-> ev, use_status |-> us, confirm |-> cf]
ArgChoices ==
    { Args(TRUE, EventId, us, cf) : us \in ValidOptions, cf \in BOOLEAN }
    \cup { Args(TRUE, EventId, us, TRUE) : us \in InvalidOptions }
    \cup { Args(FALSE, EventId, <<TextActive>>, TRUE), Args(TRUE, NoneId, <<TextActive>>, TRUE) }

NoPlan == [reconciled |-> FALSE, registrants |-> <<>>, remoteRegs |-> <<>>,
           outcome |-> "idle",
           potential_registrant_ids |-> {}, status_groups |-> EmptyStatusGroups]

RemoteIs(w) ==
    /\ remoteEvent = w.event
    /\ remoteRegs = w.regs
    /\ remoteContacts = w.contacts
    /\ remoteLevels = w.levels
    /\ remoteGroups = w.groups

\* a response of the API as api_get_result_url reads it: whether it carries a
\* ResultUrl (and a non-empty one), its State ("" when the key is missing), and
\* which response it is (0 the initial one, k the k-th poll)
Response(url, st, k) == [ResultUrl |-> url, State |-> st, serial |-> k]
NoResponse == Response(Missing, "", 0)

\* no call of api_get_result_url is under way
NoPoll ==
    /\ poll_pc = "idle"
    /\ max_wait = 0
    /\ first = NoResponse
    /\ data = NoResponse
    /\ state = ""
    /\ attempts = 0
    /\ polled = <<>>

NoArgs ==
    /\ account_id = FALSE
    /\ event_id = NoneId
    /\ use_status_option = <<>>
    /\ events_fetched = FALSE
    /\ use_status = <<>>
    /\ confirm = FALSE

NoLocals ==
    /\ fetched = <<>>
    /\ event = [AccessControl |-> CHOOSE a \in AccessControls : ~a.present,
                RegistrationTypes |-> <<>>]
    /\ default_membership_levels = <<>>
    /\ default_membergroups = <<>>
    /\ registrants = <<>>
    /\ contacts = <<>>
    /\ membership_levels_ids = {}
    /\ membergroup_ids = {}
    /\ temp_ids = {}
    /\ potential_registrant_ids = {}
    /\ status_groups = EmptyStatusGroups
    /\ registration_type_ids = <<>>
    /\ keyIdx = 0
    /\ echoed = <<>>
    /\ result = [success |-> <<>>, failed |-> <<>>, returned |-> FALSE]
    /\ log = <<>>
    /\ nbulk = 0

NoBulk ==
    /\ contact_ids = <<>>
    /\ reg_type_id = NoneId
    /\ max_retries = DefaultMaxRetries
    /\ i = 0
    /\ attempt = 0
    /\ success = FALSE
    /\ success_ids = <<>>
    /\ failed_ids = <<>>

\* the same values, as the state a fresh invocation starts from
ResetLocals ==
    /\ fetched' = <<>>
    /\ event' = [AccessControl |-> CHOOSE a \in AccessControls : ~a.present,
                RegistrationTypes |-> <<>>]
    /\ default_membership_levels' = <<>>
    /\ default_membergroups' = <<>>
    /\ registrants' = <<>>
    /\ contacts' = <<>>
    /\ membership_levels_ids' = {}
    /\ membergroup_ids' = {}
    /\ temp_ids' = {}
    /\ potential_registrant_ids' = {}
    /\ status_groups' = EmptyStatusGroups
    /\ registration_type_ids' = <<>>
    /\ keyIdx' = 0
    /\ echoed' = <<>>
    /\ result' = [success |-> <<>>, failed |-> <<>>, returned |-> FALSE]
    /\ log' = <<>>
    /\ nbulk' = 0

ResetBulk ==
    /\ contact_ids' = <<>>
    /\ reg_type_id' = NoneId
    /\ max_retries' = DefaultMaxRetries
    /\ i' = 0
    /\ attempt' = 0
    /\ success' = FALSE
    /\ success_ids' = <<>>
    /\ failed_ids' = <<>>

Init ==
    /\ \E w \in Worlds : RemoteIs(w)
    /\ run = 0
    /\ runLimit = 1
    /\ NoPoll
    /\ lost = 0
    /\ pc = "idle"
    /\ outcome = "idle"
    /\ caller = "auto_register"
    /\ prev = NoPlan
    /\ NoArgs
    /\ NoLocals
    /\ NoBulk

----------------------------------------------------------------------------
\* watools/commands/events.py, auto_register

\* the run returns at this point with the given outcome
Return(o) == pc' = "done" /\ outcome' = o

\* the exit status of the process once the run has ended with outcome o: every
\* path of auto_register ends in a plain return (lines 131, 136, 154, 162, 172,
\* 182, 247, 257, 262, 289) or in the except clause of lines 303-305, which
\* returns as well, so the command exits with status 0; a click.BadParameter of
\* the option callback (line 109) ends the process with click's usage status 2
ExitStatus(o) == IF o = "bad_parameter" THEN UsageExitStatus
                 ELSE IF o = "interrupted" THEN AbortExitStatus
                 ELSE 0

\* the plan this run has computed, once lines 179-235 have run
Reconciled == pc \in {"select_type", "confirm", "keys", "attempt", "after_attempts", "bulk_return"}
              \/ (pc = "done" /\ outcome \in {"no_regtypes", "no_autoreg_type",
                     "multiple_autoreg_types", "dry_run", "no_records", "processed",
                     "interrupted"})

\* lines 16-52, the callback of the events group, which click invokes before it
\* parses the options of the sub-command: with an account id it fetches the
\* event list (line 37)
GroupFetchesEvents(acc) == acc

\* lines 114-136: a fresh invocation of the command. click runs the group
\* callback, then parses the options of auto-register (parse_statuses is the
\* callback of --use-status), then calls the function
Start ==
    /\ pc \in {"idle", "done"}
    /\ caller = "auto_register"
    /\ run < runLimit
    /\ run' = run + 1
    /\ \E a \in ArgChoices :
        /\ account_id' = a.account_id
        /\ event_id' = a.event_id
        /\ use_status_option' = a.use_status
        /\ events_fetched' = GroupFetchesEvents(a.account_id)
        /\ use_status' = parse_statuses(a.use_status).result
        /\ confirm' = a.confirm
        /\ IF parse_statuses(a.use_status).raised THEN Return("bad_parameter")
           ELSE IF ~a.account_id THEN Return("no_account")
           ELSE IF a.event_id = NoneId THEN Return("no_event_id")
           ELSE pc' = "fetch_event" /\ outcome' = "running"
    /\ prev' = [reconciled |-> Reconciled, registrants |-> registrants,
                remoteRegs |-> remoteRegs, outcome |-> outcome,
                potential_registrant_ids |-> potential_registrant_ids,
                status_groups |-> status_groups]
    /\ ResetLocals
    /\ ResetBulk
    /\ UNCHANGED <<remoteVars, runLimit, pollVars, lost, caller>>

\* line 140
FetchEvent ==
    /\ pc = "fetch_event"
    /\ event' = remoteEvent
    /\ fetched' = Append(fetched, "event")
    /\ pc' = "fetch_registrants"
    /\ UNCHANGED <<remoteVars, run, runLimit, pollVars, lost, argVars, default_membership_levels,
                   default_membergroups, registrants, contacts, planVars,
                   registration_type_ids, keyIdx, outcome, echoed, caller, bulkVars,
                   result, log, nbulk, prev>>

\* api.py lines 398-402: the registrations of the event, as the remote side
\* holds them at the time of the request
get_event_registrants_first_only(remote) ==
    IF remote = <<>> THEN <<>> ELSE <<Head(remote)>>
get_event_registrants(remote) == remote

\* line 147
FetchRegistrants ==
    /\ pc = "fetch_registrants"
    /\ registrants' = get_event_registrants(remoteRegs)
    /\ fetched' = Append(fetched, "registrants")
    /\ pc' = "fetch_contacts"
    /\ UNCHANGED <<remoteVars, run, runLimit, pollVars, lost, argVars, event, default_membership_levels,
                   default_membergroups, contacts, planVars,
                   registration_type_ids, keyIdx, outcome, echoed, caller, bulkVars,
                   result, log, nbulk, prev>>

\* lines 151-155 (get_contacts normalizes what it returns, api.py line 395)
FetchContacts ==
    /\ pc = "fetch_contacts"
    /\ contacts' = normalize_and_flatten_contacts(remoteContacts)
    /\ fetched' = Append(fetched, "contacts")
    /\ IF contacts' = <<>> THEN Return("no_contacts")
       ELSE pc' = "fetch_levels" /\ UNCHANGED outcome
    /\ UNCHANGED <<remoteVars, run, runLimit, pollVars, lost, argVars, event, default_membership_levels,
                   default_membergroups, registrants, planVars,
                   registration_type_ids, keyIdx, echoed, caller, bulkVars,
                   result, log, nbulk, prev>>

\* lines 158-165
FetchLevels ==
    /\ pc = "fetch_levels"
    /\ default_membership_levels' = Ids(remoteLevels)
    /\ fetched' = Append(fetched, "levels")
    /\ IF default_membership_levels' = <<>> THEN Return("no_levels")
       ELSE pc' = "fetch_groups" /\ UNCHANGED outcome
    /\ UNCHANGED <<remoteVars, run, runLimit, pollVars, lost, argVars, event,
                   default_membergroups, registrants, contacts, planVars,
                   registration_type_ids, keyIdx, echoed, caller, bulkVars,
                   result, log, nbulk, prev>>

\* line 170: not default_membergroups
MemberGroupsNotTested(ids) == FALSE
NoMemberGroups(ids) == ids = <<>>

\* lines 168-175
FetchGroups ==
    /\ pc = "fetch_groups"
    /\ default_membergroups' = Ids(remoteGroups)
    /\ fetched' = Append(fetched, "groups")
    /\ IF NoMemberGroups(default_membergroups') THEN Return("no_groups")
       ELSE pc' = "access_control" /\ UNCHANGED outcome
    /\ UNCHANGED <<remoteVars, run, runLimit, pollVars, lost, argVars, event,
                   default_membership_levels, registrants, contacts, planVars,
                   registration_type_ids, keyIdx, echoed, caller, bulkVars,
                   result, log, nbulk, prev>>

\* any of the five fetches raises (api_get, api_get_result_url); lines 303-305 catch it
FetchPcs == {"fetch_event", "fetch_registrants", "fetch_contacts", "fetch_levels", "fetch_groups"}
FetchRaisesButRegistrantsSwallowed ==
    /\ pc \in FetchPcs
    /\ IF pc = "fetch_registrants"
       THEN pc' = "fetch_contacts" /\ UNCHANGED outcome
       ELSE Return("exception")
    /\ UNCHANGED <<remoteVars, run, runLimit, pollVars, lost, argVars, fetched, event,
                   default_membership_levels, default_membergroups, registrants, contacts,
                   planVars, registration_type_ids, keyIdx, echoed, caller, bulkVars,
                   result, log, nbulk, prev>>
FetchRaises ==
    /\ pc \in FetchPcs
    /\ Return("exception")
    /\ UNCHANGED <<remoteVars, run, runLimit, pollVars, lost, argVars, fetched, event,
                   default_membership_levels, default_membergroups, registrants, contacts,
                   planVars, registration_type_ids, keyIdx, echoed, caller, bulkVars,
                   result, log, nbulk, prev>>

\* lines 179-180: not event.get("Details", {}).get("AccessControl")
AccessControlNeverMissing(ac) == FALSE
AccessControlMissing(ac) == ~ac.present

\* lines 179-240: access control, eligible pool, pending set, status buckets
Reconcile ==
    /\ pc = "access_control"
    /\ LET ac       == event.AccessControl
           levelIds == ResolveLevelIds(ac, Range(default_membership_levels))
           groupIds == ResolveGroupIds(ac, Range(default_membergroups))
           pool     == TempIds(contacts, levelIds, groupIds)
           pending  == PotentialRegistrantIds(pool, registrants)
       IN  IF AccessControlMissing(ac)
           THEN Return("no_access_control") /\ UNCHANGED planVars
           ELSE /\ membership_levels_ids' = levelIds
                /\ membergroup_ids' = groupIds
                /\ IF \E c \in Range(contacts) : ContactInGroupRaises(c)
                   THEN /\ Return("exception")
                        /\ UNCHANGED <<temp_ids, potential_registrant_ids, status_groups>>
                   ELSE /\ temp_ids' = pool
                        /\ potential_registrant_ids' = pending
                        /\ status_groups' = StatusGroups(contacts, pending)
                        /\ pc' = "select_type"
                        /\ UNCHANGED outcome
    /\ UNCHANGED <<remoteVars, run, runLimit, pollVars, lost, argVars, fetched, event,
                   default_membership_levels, default_membergroups, registrants, contacts,
                   registration_type_ids, keyIdx, echoed, caller, bulkVars,
                   result, log, nbulk, prev>>

\* lines 244-264: the single auto-register registration type
SelectRegistrationType ==
    /\ pc = "select_type"
    /\ LET rts == event.RegistrationTypes
           ids == Ids(AutoRegisterTypes(rts))
       IN  IF rts = <<>>
           THEN Return("no_regtypes") /\ UNCHANGED registration_type_ids
           ELSE /\ registration_type_ids' = ids
                /\ IF ids = <<>> THEN Return("no_autoreg_type")
                   ELSE IF Len(ids) > 1 THEN Return("multiple_autoreg_types")
                   ELSE pc' = "confirm" /\ UNCHANGED outcome
    /\ UNCHANGED <<remoteVars, run, runLimit, pollVars, lost, argVars, fetched, event,
                   default_membership_levels, default_membergroups, registrants, contacts,
                   planVars, keyIdx, echoed, caller, bulkVars,
                   result, log, nbulk, prev>>

\* line 268: if confirm
ConfirmIgnored == TRUE
ConfirmGiven == confirm

\* line 269: if status_groups (a dict is true when it has a key)
HasBuckets(sg) == \E key \in StatusKeys : sg[key] # <<>>

\* lines 271 and 275: status_groups[key]
BucketOfEveryStatus(sg, key) == IdsWhere(contacts, {c \in Range(contacts) : c.Id \in potential_registrant_ids})
BucketFor(sg, key) == sg[key]

\* lines 268-269 and 285-289
ConfirmBranch ==
    /\ pc = "confirm"
    /\ IF ConfirmGiven
       THEN IF HasBuckets(status_groups)
            THEN pc' = "keys" /\ keyIdx' = 1 /\ UNCHANGED outcome
            ELSE Return("no_records") /\ UNCHANGED keyIdx
       ELSE Return("dry_run") /\ UNCHANGED keyIdx
    /\ UNCHANGED <<remoteVars, run, runLimit, pollVars, lost, argVars, fetched, event,
                   default_membership_levels, default_membergroups, registrants, contacts,
                   planVars, registration_type_ids, echoed, caller, bulkVars,
                   result, log, nbulk, prev>>

----------------------------------------------------------------------------
\* watools/core/api.py, register_contacts_to_event

\* the loop head of line 428: another attempt is made while attempt < max_retries
NextPcOneAttemptMore(done, retries) == IF done <= retries THEN "attempt" ELSE "after_attempts"
NextPcInContact(done, retries) == IF done < retries THEN "attempt" ELSE "after_attempts"

\* line 428 on entering the loop for a contact: range(1, max_retries + 1) is
\* empty when max_retries is zero or negative, and then no attempt is made
FirstPcAlwaysAttempt(retries) == "attempt"
FirstPcInContact(retries) == NextPcInContact(0, retries)

\* the length of range(1, max_retries + 1): the attempts one contact can get,
\* none when max_retries is negative
AttemptsPerContact == IF max_retries > 0 THEN max_retries ELSE 0

\* line 433: break, no further attempt for this contact
PcAfterSuccessNoBreak(done, retries) == NextPcInContact(done, retries)
PcAfterSuccess(done, retries) == "after_attempts"

\* what register_contact_to_event can raise: ValueError (api.py line 35),
\* RuntimeError (lines 52 and 97), and the errors of requests.post and
\* response.json(); all are subclasses of Exception
ExceptionKinds == {"ValueError", "RuntimeError", "ConnectionError", "JSONDecodeError"}

\* line 434: except Exception catches every kind, and the attempts go on
PcAfterExceptionOnlyRuntimeError(exc, done, retries) ==
    IF exc = "RuntimeError" THEN NextPcInContact(done, retries) ELSE "raised"
PcAfterException(exc, done, retries) ==
    IF exc \in ExceptionKinds THEN NextPcInContact(done, retries) ELSE "raised"

\* lines 423-424: success_ids = [] and failed_ids = [], new lists in every call
ListCarriedOver(old) == old
NewList(old) == <<>>

\* lines 418-426: the call, up to the first contact
EnterBulk(ids, rt, retries) ==
    /\ contact_ids' = ids
    /\ reg_type_id' = rt
    /\ max_retries' = retries
    /\ success_ids' = NewList(success_ids)
    /\ failed_ids' = NewList(failed_ids)
    /\ i' = 1
    /\ attempt' = 0
    /\ success' = FALSE
    /\ pc' = IF ids = <<>> THEN "bulk_return" ELSE FirstPcInContact(retries)

\* line 426: for i, contact_id in enumerate(contact_ids, start=1)
ContactAtReversed(ids, p) == ids[Len(ids) + 1 - p]
ContactAt(ids, p) == ids[p]

LogEntry(op, ok) ==
    [op |-> op, bulk |-> nbulk, pos |-> i, cid |-> ContactAt(contact_ids, i), ok |-> ok,
     event |-> event_id, regtype |-> reg_type_id]

\* line 436: time.sleep(delay) in the handler of a failed attempt
PauseAfterFailure == <<LogEntry("sleep", FALSE)>>
\* line 444: time.sleep(delay) after every contact, outside the if of line 438
PauseAfterContactOnlyWhenGivenUp == IF success THEN <<>> ELSE <<LogEntry("sleep", FALSE)>>
PauseAfterContact == <<LogEntry("sleep", FALSE)>>

\* line 428: range(1, max_retries + 1) hands out the next attempt number
AttemptNotCounted(a) == a
NextAttempt(a) == a + 1

\* lines 429-433: the call returns; the registration exists on the remote side
AttemptSucceeds ==
    /\ pc = "attempt"
    /\ attempt' = NextAttempt(attempt)
    /\ log' = Append(log, LogEntry("call", TRUE))
    /\ remoteRegs' = Append(remoteRegs, Registration(ContactAt(contact_ids, i), reg_type_id))
    /\ success' = TRUE
    /\ pc' = PcAfterSuccess(attempt', max_retries)
    /\ UNCHANGED <<remoteEvent, remoteContacts, remoteLevels, remoteGroups,
                   run, runLimit, pollVars, lost, argVars, fetched, event,
                   default_membership_levels, default_membergroups, registrants, contacts,
                   planVars, registration_type_ids, keyIdx, outcome, echoed, caller,
                   contact_ids, reg_type_id, max_retries, i, success_ids, failed_ids,
                   result, nbulk, prev>>

\* lines 434-436: the call raises, then time.sleep(delay). The request may have
\* been refused (no effect) or its reply lost after the remote side created the
\* registration.
AttemptFails ==
    /\ pc = "attempt"
    /\ attempt' = NextAttempt(attempt)
    /\ log' = Append(log, LogEntry("call", FALSE)) \o PauseAfterFailure
    /\ \E effect \in {e \in BOOLEAN : e => lost < MaxLost} :
        IF effect
        THEN /\ remoteRegs' = Append(remoteRegs, Registration(ContactAt(contact_ids, i), reg_type_id))
             /\ lost' = lost + 1
        ELSE UNCHANGED <<remoteRegs, lost>>
    /\ \E exc \in ExceptionKinds : pc' = PcAfterException(exc, attempt', max_retries)
    /\ UNCHANGED <<remoteEvent, remoteContacts, remoteLevels, remoteGroups,
                   run, runLimit, pollVars, argVars, fetched, event,
                   default_membership_levels, default_membergroups, registrants, contacts,
                   planVars, registration_type_ids, keyIdx, outcome, echoed, caller,
                   contact_ids, reg_type_id, max_retries, i, success, success_ids,
                   failed_ids, result, nbulk, prev>>

\* line 427: success = False at the head of the loop body
SuccessFlagKept(flag) == flag
SuccessAtLoopHead(flag) == FALSE

\* lines 438-444, then the loop head of line 426 for the next contact
AfterAttempts ==
    /\ pc = "after_attempts"
    /\ IF success
       THEN success_ids' = Append(success_ids, ContactAt(contact_ids, i)) /\ UNCHANGED failed_ids
       ELSE failed_ids' = Append(failed_ids, ContactAt(contact_ids, i)) /\ UNCHANGED success_ids
    /\ log' = log \o PauseAfterContact
    /\ i' = i + 1
    /\ attempt' = 0
    /\ success' = SuccessAtLoopHead(success)
    /\ pc' = IF i' > Len(contact_ids) THEN "bulk_return" ELSE FirstPcInContact(max_retries)
    /\ UNCHANGED <<remoteVars, run, runLimit, pollVars, lost, argVars, fetched, event,
                   default_membership_levels, default_membergroups, registrants, contacts,
                   planVars, registration_type_ids, keyIdx, outcome, echoed, caller,
                   contact_ids, reg_type_id, max_retries, result, nbulk, prev>>

\* events.py lines 281-282: the two lines echoed for a processed bucket
EchoLineSuccessTwice(key, res) ==
    [key |-> key, successful |-> Len(res.success), failed |-> Len(res.success)]
EchoLine(key, res) ==
    [key |-> key, successful |-> Len(res.success), failed |-> Len(res.failed)]

\* line 447, and lines 281-282 of the caller
BulkReturn ==
    /\ pc = "bulk_return"
    /\ result' = [success |-> success_ids, failed |-> failed_ids, returned |-> TRUE]
    /\ IF caller = "auto_register"
       THEN /\ echoed' = Append(echoed, EchoLine(use_status[keyIdx], result'))
            /\ keyIdx' = keyIdx + 1
            /\ pc' = "keys"
       ELSE /\ pc' = "returned"
            /\ UNCHANGED <<echoed, keyIdx>>
    /\ UNCHANGED <<remoteVars, run, runLimit, pollVars, lost, argVars, fetched, event,
                   default_membership_levels, default_membergroups, registrants, contacts,
                   planVars, registration_type_ids, outcome, caller, bulkVars,
                   log, nbulk, prev>>

----------------------------------------------------------------------------
\* line 278: reg_type_id=registration_type_ids[0]
FirstTypeOfEvent(ids) == event.RegistrationTypes[1].Id
SelectedRegistrationType(ids) == ids[1]

\* watools/commands/events.py, lines 270-284: one bulk call per key of use_status
KeyLoop ==
    /\ pc = "keys"
    /\ IF keyIdx > Len(use_status)
       THEN /\ Return("processed")
            /\ UNCHANGED <<keyIdx, bulkVars, nbulk>>
       ELSE LET key == use_status[keyIdx]
            IN  IF Len(BucketFor(status_groups, key)) > 0
                THEN /\ EnterBulk(BucketFor(status_groups, key),
                                  SelectedRegistrationType(registration_type_ids),
                                  DefaultMaxRetries)
                     /\ nbulk' = nbulk + 1
                     /\ UNCHANGED <<keyIdx, outcome>>
                ELSE /\ keyIdx' = keyIdx + 1
                     /\ UNCHANGED <<pc, outcome, bulkVars, nbulk>>
    /\ UNCHANGED <<remoteVars, run, runLimit, pollVars, lost, argVars, fetched, event,
                   default_membership_levels, default_membergroups, registrants, contacts,
                   planVars, registration_type_ids, echoed, caller, result, log, prev>>

\* the operator interrupts the run (Ctrl-C) while it registers: KeyboardInterrupt
\* is no Exception, so neither api.py line 434 nor events.py line 303 catches it
\* and the process ends. At a call, the request may already have taken effect.
Interrupt ==
    /\ caller = "auto_register"
    /\ pc \in {"keys", "attempt", "after_attempts", "bulk_return"}
    /\ \E effect \in {e \in BOOLEAN : e => (pc = "attempt" /\ lost < MaxLost)} :
        IF effect
        THEN /\ remoteRegs' = Append(remoteRegs, Registration(ContactAt(contact_ids, i), reg_type_id))
             /\ lost' = lost + 1
        ELSE UNCHANGED <<remoteRegs, lost>>
    /\ Return("interrupted")
    /\ UNCHANGED <<remoteEvent, remoteContacts, remoteLevels, remoteGroups,
                   run, runLimit, pollVars, argVars, fetched, event,
                   default_membership_levels, default_membergroups, registrants, contacts,
                   planVars, registration_type_ids, keyIdx, echoed, caller, bulkVars,
                   result, log, nbulk, prev>>

Next ==
    \/ Start
    \/ FetchEvent
    \/ FetchRegistrants
    \/ FetchContacts
    \/ FetchLevels
    \/ FetchGroups
    \/ FetchRaises
    \/ Reconcile
    \/ SelectRegistrationType
    \/ ConfirmBranch
    \/ KeyLoop
    \/ AttemptSucceeds
    \/ AttemptFails
    \/ AfterAttempts
    \/ BulkReturn
    \/ Interrupt

Spec == Init /\ [][Next]_vars

----------------------------------------------------------------------------
\* A run followed by re-runs against the same account: the remote registrations
\* are what earlier runs left behind.
RerunWorlds ==
    { World([AccessControl |-> ac, RegistrationTypes |-> rts], regs, cs, LevelCatalog, GroupCatalog) :
        ac \in {a \in AccessControls : a.present /\ a.AvailableForLevels # <<>> /\ a.AvailableForGroups = <<>>},
        rts \in {r \in RegistrationTypeLists : Len(r) = 1},
        regs \in {r \in InitialRegistrations : Len(r) < 2},
        cs \in {c \in ContactLists : Len(c) = 3} }

InitRerun ==
    /\ \E w \in RerunWorlds : RemoteIs(w)
    /\ run = 0
    /\ runLimit = MaxRuns
    /\ NoPoll
    /\ lost = 0
    /\ pc = "idle"
    /\ outcome = "idle"
    /\ caller = "auto_register"
    /\ prev = NoPlan
    /\ NoArgs
    /\ NoLocals
    /\ NoBulk

SpecRerun == InitRerun /\ [][Next]_vars

----------------------------------------------------------------------------
\* register_contacts_to_event called on its own, with any list of distinct
\* contact ids and any max_retries
BatchChoices ==
    { s \in UNION { [1..n -> 1..MaxBatch] : n \in 0..MaxBatch } :
        \A j, k \in DOMAIN s : j # k => s[j] # s[k] }

InitBulk ==
    /\ \E w \in {x \in Worlds : x.regs = <<>> /\ x.contacts = <<>> /\ x.levels # <<>>
                                 /\ ~x.event.AccessControl.present
                                 /\ x.event.RegistrationTypes = <<RegType(103, NameAutoRegisterVip)>>} :
          RemoteIs(w)
    /\ run = 0
    /\ runLimit = 0
    /\ NoPoll
    /\ lost = 0
    /\ outcome = "idle"
    /\ caller = "direct"
    /\ prev = NoPlan
    /\ account_id = TRUE
    /\ event_id = EventId
    /\ use_status_option = <<>>
    /\ events_fetched = FALSE
    /\ use_status = <<>>
    /\ confirm = FALSE
    /\ NoLocals
    /\ \E ids \in BatchChoices, retries \in MinRetriesArg..MaxRetriesArg :
        /\ contact_ids = ids
        /\ max_retries = retries
        /\ pc = IF ids = <<>> THEN "bulk_return" ELSE FirstPcInContact(retries)
    /\ reg_type_id = 103
    /\ success_ids = <<>>
    /\ failed_ids = <<>>
    /\ i = 1
    /\ attempt = 0
    /\ success = FALSE

NextBulk ==
    \/ AttemptSucceeds
    \/ AttemptFails
    \/ AfterAttempts
    \/ BulkReturn

SpecBulk == InitBulk /\ [][NextBulk]_vars

\* the function runs in one thread that is never held back for ever: its calls
\* (requests.post) return or raise, and time.sleep(delay) returns
SpecBulkLive == InitBulk /\ [][NextBulk]_vars /\ WF_vars(NextBulk)

----------------------------------------------------------------------------
\* watools/core/api.py, api_get_result_url (lines 253-302), called on its own
\* with any max_wait, against a remote side that answers as it likes

ResultUrls == {Missing, "", "https://result"}
States == {"", "Processing", "Failed", "Complete"}

\* line 282: if result_url
CarriesResultUrl(r) == r.ResultUrl \notin {Missing, ""}

\* line 288: while state != "Complete" and attempts < max_wait
ContinuePollingOnceMore(st, n, mw) == st # "Complete" /\ n <= mw
ContinuePolling(st, n, mw) == st # "Complete" /\ n < mw

InitPoll ==
    /\ \E w \in {x \in Worlds : x = ScenarioWorld} : RemoteIs(w)
    /\ run = 0
    /\ runLimit = 0
    /\ lost = 0
    /\ pc = "idle"
    /\ outcome = "idle"
    /\ caller = "direct"
    /\ prev = NoPlan
    /\ NoArgs
    /\ NoLocals
    /\ NoBulk
    /\ poll_pc = "request"
    /\ max_wait \in 0..MaxWait
    /\ first = NoResponse
    /\ data = NoResponse
    /\ state = ""
    /\ attempts = 0
    /\ polled = <<>>

mainVars == <<remoteVars, run, runLimit, lost, pc, argVars, fetched, event,
              default_membership_levels, default_membergroups, registrants, contacts,
              planVars, registration_type_ids, keyIdx, outcome, echoed, caller, bulkVars,
              result, log, nbulk, prev>>

\* lines 271-285: the initial request is answered; with a ResultUrl the loop is
\* entered with the State of the answer, without one the answer is returned
InitialResponse ==
    /\ poll_pc = "request"
    /\ \E url \in ResultUrls, st \in States :
        /\ first' = Response(url, st, 0)
        /\ data' = Response(url, st, 0)
        /\ IF CarriesResultUrl(Response(url, st, 0))
           THEN state' = st /\ poll_pc' = "loop"
           ELSE UNCHANGED state /\ poll_pc' = "returned"
    /\ UNCHANGED <<max_wait, attempts, polled, mainVars>>

\* lines 274-275: the initial request is refused, RuntimeError
InitialRefused ==
    /\ poll_pc = "request"
    /\ poll_pc' = "runtime_error"
    /\ UNCHANGED <<max_wait, first, data, state, attempts, polled, mainVars>>

\* lines 288-296: one turn of the loop, the poll being answered
Poll ==
    /\ poll_pc = "loop"
    /\ ContinuePolling(state, attempts, max_wait)
    /\ \E st \in States :
        /\ data' = Response(first.ResultUrl, st, attempts + 1)
        /\ state' = st
        /\ polled' = Append(polled, st)
    /\ attempts' = attempts + 1
    /\ UNCHANGED <<poll_pc, max_wait, first, mainVars>>

\* lines 290-291: the poll request or the parsing of its answer raises; nothing
\* in the function catches it
PollRaises ==
    /\ poll_pc = "loop"
    /\ ContinuePolling(state, attempts, max_wait)
    /\ poll_pc' = "poll_error"
    /\ UNCHANGED <<max_wait, first, data, state, attempts, polled, mainVars>>

\* lines 288 and 299-302: the loop is left; TimeoutError unless state is Complete
LeaveLoop ==
    /\ poll_pc = "loop"
    /\ ~ContinuePolling(state, attempts, max_wait)
    /\ poll_pc' = IF state # "Complete" THEN "timeout_error" ELSE "returned"
    /\ UNCHANGED <<max_wait, first, data, state, attempts, polled, mainVars>>

NextPoll ==
    \/ InitialResponse
    \/ InitialRefused
    \/ Poll
    \/ PollRaises
    \/ LeaveLoop

SpecPoll == InitPoll /\ [][NextPoll]_vars

----------------------------------------------------------------------------
\* Properties

\* positions of the registration calls in the log of the run
CallEntries == {k \in 1..Len(log) : log[k].op = "call"}

\* lines 187-196 have run in this invocation
Resolved == Reconciled \/ (pc = "done" /\ outcome = "exception" /\ Len(fetched) = 5)

\* the group ids a raw contact carries in its "Groups" custom field
GroupIdsOf(c) ==
    { g.Id : g \in UNION { Range(f.Value) :
                           f \in {x \in Range(c.FieldValues.fields) : x.SystemCode = "Groups"} } }

\* the contact ids of the registrations the run fetched
RegistrantContactIds == { registrants[k].Contact.Id : k \in 1..Len(registrants) }

\* C1: when the event's rule has AvailableForAnyLevel = true, the level id set the
\* run uses is the set of all membership-level ids of the account, whatever
\* AvailableForLevels holds.
C1_AnyLevelIsAllLevels ==
    (Resolved /\ remoteEvent.AccessControl.AvailableForAnyLevel)
        => membership_levels_ids = { remoteLevels[k].Id : k \in 1..Len(remoteLevels) }

C1_Witness ==
    /\ Resolved
    /\ remoteEvent.AccessControl.AvailableForAnyLevel
    /\ remoteEvent.AccessControl.AvailableForLevels = <<Item(10)>>
    /\ membership_levels_ids = {10, 20}

\* C2: a contact is in the eligible pool exactly when its membership level id is
\* in the resolved level ids or one of its group ids is in the resolved group ids.
C2_EligibleIsUnion ==
    Reconciled =>
        \A k \in 1..Len(remoteContacts) :
            LET c == remoteContacts[k]
            IN  (c.Id \in temp_ids) <=>
                    \/ (c.MembershipLevel.isDict /\ c.MembershipLevel.Id \in membership_levels_ids)
                    \/ GroupIdsOf(c) \cap membergroup_ids # {}

\* a contact eligible by group only, its level being excluded
C2_Witness ==
    /\ Reconciled
    /\ \E k \in 1..Len(remoteContacts) :
        LET c == remoteContacts[k]
        IN  /\ c.Id \in temp_ids
            /\ c.MembershipLevel.isDict
            /\ c.MembershipLevel.Id \notin membership_levels_ids
            /\ GroupIdsOf(c) \cap membergroup_ids # {}

\* C3: the pending set is the eligible pool minus the contact ids of the fetched
\* registrants: it holds no registrant and every eligible non-registrant.
C3_PendingIsEligibleMinusRegistrants ==
    Reconciled =>
        /\ potential_registrant_ids \cap RegistrantContactIds = {}
        /\ \A cid \in temp_ids : cid \notin RegistrantContactIds => cid \in potential_registrant_ids
        /\ potential_registrant_ids \subseteq temp_ids

C3_Witness ==
    /\ Reconciled
    /\ temp_ids \cap RegistrantContactIds # {}
    /\ potential_registrant_ids # {}

NamesWithMarker == {NameAutoRegister2024, NameAutoRegisterVip, NameMemberAuto}
MarkedTypes ==
    {k \in 1..Len(remoteEvent.RegistrationTypes) :
        remoteEvent.RegistrationTypes[k].Name \in NamesWithMarker}

\* lines 244-264 have run in this invocation
SelectionDone ==
    \/ pc \in {"confirm", "keys", "attempt", "after_attempts", "bulk_return"}
    \/ (pc = "done" /\ outcome \in {"no_regtypes", "no_autoreg_type", "multiple_autoreg_types",
                                    "dry_run", "no_records", "processed", "interrupted"})

TypeErrors == {"no_regtypes", "no_autoreg_type", "multiple_autoreg_types"}

\* C5: with zero or with several registration types named "auto-register" (in
\* any letter case) the run ends in a configuration error and issues no
\* registration call, confirmed or not; with exactly one, the id of that type is
\* the one selected and the one every call carries.
C5_ExactlyOneAutoRegisterType ==
    /\ SelectionDone =>
          IF Cardinality(MarkedTypes) = 1
          THEN /\ outcome \notin TypeErrors
               /\ registration_type_ids =
                    <<remoteEvent.RegistrationTypes[CHOOSE k \in MarkedTypes : TRUE].Id>>
          ELSE /\ pc = "done"
               /\ outcome \in TypeErrors
               /\ (Cardinality(MarkedTypes) = 0 <=> outcome \in {"no_regtypes", "no_autoreg_type"})
    /\ CallEntries # {} =>
          /\ Cardinality(MarkedTypes) = 1
          /\ \A k \in CallEntries :
                log[k].regtype = remoteEvent.RegistrationTypes[CHOOSE m \in MarkedTypes : TRUE].Id

\* a confirmed run with contacts pending, stopped by two auto-register types of
\* different letter case
C5_Witness ==
    /\ pc = "done"
    /\ outcome = "multiple_autoreg_types"
    /\ confirm
    /\ status_groups["Active"] # <<>>
    /\ "Active" \in Range(use_status)
    /\ Ids(remoteEvent.RegistrationTypes) = <<102, 103>>
    /\ CallEntries = {}

\* the registration calls made for the contact at position p of contact_ids
CallsAt(p) == {k \in CallEntries : log[k].pos = p}
FailedCallsAt(p) == {k \in CallsAt(p) : ~log[k].ok}

\* C6: once register_contacts_to_event has returned, a contact all of whose calls
\* failed had exactly max_retries calls (none, when max_retries is not positive
\* and no call is made at all) and is in the failed list, and every contact
\* after it in the input was processed as well: it is in one of the two lists
\* and, unless it succeeded earlier, had max_retries calls too.
C6_ExhaustedContactFailsAndBatchGoesOn ==
    (pc = "returned") =>
        \A p \in 1..Len(contact_ids) :
            (FailedCallsAt(p) = CallsAt(p)) =>
                /\ Cardinality(CallsAt(p)) = AttemptsPerContact
                /\ contact_ids[p] \in Range(result.failed)
                /\ contact_ids[p] \notin Range(result.success)
                /\ \A q \in (p + 1)..Len(contact_ids) :
                      /\ contact_ids[q] \in Range(result.success) \cup Range(result.failed)
                      /\ (max_retries > 0 => CallsAt(q) # {})
                      /\ (FailedCallsAt(q) = CallsAt(q) =>
                             Cardinality(CallsAt(q)) = AttemptsPerContact)

\* three failed calls for the first contact, then the second contact registered
C6_Witness ==
    /\ pc = "returned"
    /\ max_retries = 3
    /\ Len(contact_ids) = 2
    /\ Cardinality(FailedCallsAt(1)) = 3
    /\ Cardinality(CallsAt(1)) = 3
    /\ result.failed = <<contact_ids[1]>>
    /\ result.success = <<contact_ids[2]>>

\* C7: for a contact whose k-th call is the first to succeed, exactly k calls are
\* made: the successful call is the last call for that contact, at most
\* max_retries calls are made, and after the return the contact is in the
\* success list and not in the failed list.
C7_FirstSuccessStopsRetries ==
    \A p \in 1..Len(contact_ids) :
        \A k \in CallsAt(p) :
            log[k].ok =>
                /\ \A m \in CallsAt(p) : m <= k
                /\ \A m \in CallsAt(p) : m < k => ~log[m].ok
                /\ Cardinality(CallsAt(p)) = Cardinality(FailedCallsAt(p)) + 1
                /\ Cardinality(CallsAt(p)) <= max_retries
                /\ (pc = "returned" =>
                      /\ contact_ids[p] \in Range(result.success)
                      /\ contact_ids[p] \notin Range(result.failed))

\* two failures, then success on the third and last attempt
C7_Witness ==
    /\ pc = "returned"
    /\ max_retries = 3
    /\ Cardinality(CallsAt(1)) = 3
    /\ Cardinality(FailedCallsAt(1)) = 2
    /\ contact_ids[1] \in Range(result.success)

\* C8: a run without --confirm issues no registration call, however far the
\* reconciliation gets.
C8_DryRunIssuesNoCall ==
    (run >= 1 /\ ~confirm) =>
        /\ CallEntries = {}
        /\ nbulk = 0
        /\ ("registrants" \in Range(fetched) => remoteRegs = registrants)

\* a dry run that ended with contacts pending in a bucket of its filter
C8_Witness ==
    /\ pc = "done"
    /\ outcome = "dry_run"
    /\ ~confirm
    /\ \E j \in 1..Len(use_status) : status_groups[use_status[j]] # <<>>
    /\ CallEntries = {}

\* the status bucket a contact id was placed in, read from the fetched contacts
StatusOfId(cid) ==
    LET c == CHOOSE x \in Range(contacts) : x.Id = cid
    IN  IF c.Status = Missing THEN "Unknown" ELSE c.Status

\* C9: every registration call of a confirmed run names a contact of a bucket
\* whose status is in the status filter; no id of another bucket is submitted.
C9_OnlyFilteredBucketsSubmitted ==
    /\ \A k \in CallEntries :
          /\ StatusOfId(log[k].cid) \in Range(use_status)
          /\ log[k].cid \in Range(status_groups[StatusOfId(log[k].cid)])
    /\ \A key \in StatusKeys \ Range(use_status) :
          \A cid \in Range(status_groups[key]) :
              \A k \in CallEntries : log[k].cid # cid

\* a confirmed run that processed its filter and left a computed bucket alone
C9_Witness ==
    /\ pc = "done"
    /\ outcome = "processed"
    /\ CallEntries # {}
    /\ \E key \in StatusKeys \ Range(use_status) : status_groups[key] # <<>>

AllFetches == <<"event", "registrants", "contacts", "levels", "groups">>
FatalOutcomes == {"no_account", "no_event_id", "exception", "no_contacts", "no_levels",
                  "no_groups", "no_access_control"} \cup TypeErrors

\* C10: a run in which a fetch failed or a configuration error was found issues
\* no registration call, and a registration call is issued only after all five
\* fetches have completed.
C10_NoCallBeforeFetchesOrAfterError ==
    /\ (outcome \in FatalOutcomes) => (CallEntries = {} /\ nbulk = 0)
    /\ (CallEntries # {} \/ nbulk > 0 \/ pc \in {"keys", "attempt", "after_attempts", "bulk_return"})
          => fetched = AllFetches

\* a confirmed run ended by the failure of one of its fetches
C10_Witness ==
    /\ pc = "done"
    /\ outcome = "exception"
    /\ confirm
    /\ Len(fetched) \in 1..4
    /\ CallEntries = {}

\* the outcomes the specification calls fatal: missing account or event
\* identifier, a failed fetch, no access-control section, zero or several
\* auto-register registration types
FatalErrors == {"no_account", "no_event_id", "exception", "no_access_control"} \cup TypeErrors

\* C11: a run that ends in a fatal error has printed its message and exits with
\* a non-zero status.
C11_FatalErrorExitsNonZero ==
    (pc = "done" /\ outcome \in FatalErrors) => ExitStatus(outcome) # 0

\* the log entries of the b-th bulk call of the run
EntriesOfBulk(b) == {k \in 1..Len(log) : log[k].bulk = b}
\* the contacts the b-th bulk call registered, and those it gave up on
RegisteredInBulk(b) == {log[k].cid : k \in {e \in EntriesOfBulk(b) : log[e].op = "call" /\ log[e].ok}}
GivenUpInBulk(b) == {log[k].cid : k \in EntriesOfBulk(b)} \ RegisteredInBulk(b)

\* the keys of the status filter whose bucket holds a contact, in order
RECURSIVE KeysWithContacts(_)
KeysWithContacts(us) ==
    IF us = <<>> THEN <<>>
    ELSE (IF status_groups[Head(us)] # <<>> THEN <<Head(us)>> ELSE <<>>)
         \o KeysWithContacts(Tail(us))

\* C12: a confirmed run that processed its buckets ends normally even when
\* contacts exhausted their retries: for each processed bucket it reports the
\* number of contacts registered and the number given up on, and the exit
\* status is zero.
C12_PartialFailureReportedExitZero ==
    (pc = "done" /\ outcome = "processed") =>
        /\ ExitStatus(outcome) = 0
        /\ [b \in 1..Len(echoed) |-> echoed[b].key] = KeysWithContacts(use_status)
        /\ \A b \in 1..Len(echoed) :
              /\ echoed[b].successful = Cardinality(RegisteredInBulk(b))
              /\ echoed[b].failed = Cardinality(GivenUpInBulk(b))
              /\ echoed[b].successful + echoed[b].failed = Len(status_groups[echoed[b].key])

\* a processed run in which one contact exhausted its retries and another was
\* registered
C12_Witness ==
    /\ pc = "done"
    /\ outcome = "processed"
    /\ \E b \in 1..Len(echoed) : echoed[b].failed = 1 /\ GivenUpInBulk(b) # {}
    /\ \E b \in 1..Len(echoed) : echoed[b].successful = 1

\* C13: whatever exception a registration call raises, register_contacts_to_event
\* does not propagate it: it is never left by an exception, and when it returns
\* every contact of its input is in exactly one of the two lists of the result.
C13_CallFailureNeverAbortsBatch ==
    /\ pc \in {"attempt", "after_attempts", "bulk_return", "returned"}
    /\ pc = "returned" =>
          /\ result.returned
          /\ Len(result.success) + Len(result.failed) = Len(contact_ids)
          /\ Range(result.success) \cup Range(result.failed) = Range(contact_ids)
          /\ Range(result.success) \cap Range(result.failed) = {}
          /\ \A p \in 1..Len(contact_ids) : \E k \in 1..Len(log) : log[k].pos = p

\* a returned batch in which a call failed and a later contact was still called
C13_Witness ==
    /\ pc = "returned"
    /\ \E j, k \in CallEntries :
          /\ j < k
          /\ ~log[j].ok
          /\ log[j].pos < log[k].pos

\* the run has parsed its command line
Parsed == run >= 1 /\ pc # "idle"
\* the parts of the --use-status values of the run that lie outside a set of texts
PartsOutside(texts) ==
    {k \in 1..Len(Parts(use_status_option)) : Parts(use_status_option)[k] \notin texts}

PastFetches ==
    /\ fetched = AllFetches
    /\ pc \notin {"fetch_groups", "access_control"}
    /\ outcome \notin {"no_groups", "exception"}

\* C15: when the fetched event has no access-control section the run issues no
\* registration call, with or without --confirm, never gets to select a
\* registration type, and once past the fetches it has ended with the
\* access-control error reported.
C15_NoAccessControlEndsRun ==
    ("event" \in Range(fetched) /\ ~event.AccessControl.present) =>
        /\ log = <<>>
        /\ nbulk = 0
        /\ echoed = <<>>
        /\ remoteRegs = prev.remoteRegs
        /\ pc \in FetchPcs \cup {"access_control", "done"}
        /\ PastFetches => pc = "done" /\ outcome = "no_access_control"

\* a confirmed run over an account with contacts ended on the missing section
C15_Witness ==
    /\ pc = "done"
    /\ outcome = "no_access_control"
    /\ ~event.AccessControl.present
    /\ confirm
    /\ contacts # <<>>

\* the contacts that had a registration on the remote side when this run started;
\* every registration an earlier run created is among them
RegisteredAtStart == Range(CurrentRegistrantIds(prev.remoteRegs))

\* C16: in a run that follows another, every contact whose registration existed
\* remotely when the run started, those created by the earlier run included, is
\* among the registrants the run fetches, is outside its pending set, and is
\* named by none of its registration calls.
C16_RerunSkipsCreatedRegistrations ==
    run >= 2 =>
        /\ "registrants" \in Range(fetched) =>
              RegisteredAtStart \subseteq Range(CurrentRegistrantIds(registrants))
        /\ Reconciled => potential_registrant_ids \cap RegisteredAtStart = {}
        /\ \A k \in CallEntries : log[k].cid \notin RegisteredAtStart

\* the run before was interrupted after it had created registrations, one of
\* them by a request whose reply never came, and this run registers the rest
C16_Witness ==
    /\ run = 2
    /\ prev.outcome = "interrupted"
    /\ Len(prev.remoteRegs) > Len(prev.registrants)
    /\ lost >= 1
    /\ \E k \in CallEntries : log[k].ok
    /\ pc = "done"
    /\ outcome = "processed"

\* C17: with AvailableForAnyLevel false the level ids of the run are exactly the
\* ids of the rule's AvailableForLevels; with AvailableForAnyGroup true the group
\* ids are all member-group ids of the account, otherwise exactly the ids of the
\* rule's AvailableForGroups. For the rule {any level false, levels {10}, any
\* group true}, the groups {5} and the contacts 1 (level 10), 2 (level 20, group
\* 5), 3 (level 30) the eligible pool is {1, 2}.
C17_RestrictedLevelsAndGroupSymmetry ==
    LET ac == remoteEvent.AccessControl
    IN  /\ Resolved =>
            /\ ~ac.AvailableForAnyLevel =>
                  membership_levels_ids = {ac.AvailableForLevels[k].Id :
                                              k \in 1..Len(ac.AvailableForLevels)}
            /\ ac.AvailableForAnyGroup =>
                  membergroup_ids = {remoteGroups[k].Id : k \in 1..Len(remoteGroups)}
            /\ ~ac.AvailableForAnyGroup =>
                  membergroup_ids = {ac.AvailableForGroups[k].Id :
                                        k \in 1..Len(ac.AvailableForGroups)}
        /\ (Reconciled /\ remoteEvent = ScenarioWorld.event
                       /\ remoteContacts = ScenarioContacts
                       /\ remoteGroups = <<Item(5)>>)
              => temp_ids = {1, 2}

\* the scenario reconciled: level ids {10}, group ids {5}, pool {1, 2}
C17_Witness ==
    /\ Reconciled
    /\ remoteEvent = ScenarioWorld.event
    /\ remoteContacts = ScenarioContacts
    /\ remoteGroups = <<Item(5)>>
    /\ membership_levels_ids = {10}
    /\ membergroup_ids = {5}
    /\ temp_ids = {1, 2}

\* the statuses the account knows
RecognizedStatuses == {"Active", "Lapsed", "PendingNew", "PendingRenewal"}
\* the bucket a contact record of the account belongs in: its status when that
\* is recognized, "Unknown" when it is missing, null or anything else
BucketOfRecord(c) == IF c.Status \in RecognizedStatuses THEN c.Status ELSE "Unknown"

\* C18: every pending contact id is in exactly one status bucket, the one keyed
\* by the contact's status, and a contact whose status is missing, null or not
\* one of Active, Lapsed, PendingNew, PendingRenewal is in the bucket "Unknown".
C18_UnrecognizedStatusInUnknownBucket ==
    Reconciled =>
        \A k \in 1..Len(remoteContacts) :
            LET c == remoteContacts[k]
            IN  c.Id \in potential_registrant_ids =>
                    \A key \in StatusKeys :
                        (c.Id \in Range(status_groups[key])) <=> (key = BucketOfRecord(c))

\* C19: register_contacts_to_event works through its input one contact at a
\* time and in input order: every call names the contact at its position of
\* contact_ids, and the positions never decrease along the calls, so every call
\* for an earlier position is issued before any call for a later position,
\* and while the contact at position i is being called every earlier contact
\* has been finished and no later one has been touched.
C19_SequentialInInputOrder ==
    /\ \A k \in 1..Len(log) :
          /\ log[k].cid = contact_ids[log[k].pos]
          /\ k > 1 => log[k - 1].pos <= log[k].pos
    /\ pc \in {"attempt", "after_attempts"} =>
          /\ Len(success_ids) + Len(failed_ids) = i - 1
          /\ Range(success_ids) \cup Range(failed_ids) = {contact_ids[p] : p \in 1..(i - 1)}
          /\ \A k \in 1..Len(log) : log[k].pos <= i

\* a returned batch of three contacts in which a contact was called twice, its
\* first call failing, before the next contact was called
C19_Witness ==
    /\ pc = "returned"
    /\ Len(contact_ids) = 3
    /\ \E j, k, l \in CallEntries :
          /\ j < k /\ k < l
          /\ log[j].cid = log[k].cid
          /\ ~log[j].ok
          /\ log[l].cid # log[k].cid

\* the pauses (time.sleep(delay)) in the log, and the failed calls
SleepEntries == {k \in 1..Len(log) : log[k].op = "sleep"}
FailedCalls == {k \in CallEntries : ~log[k].ok}

\* C20: a pause follows every failed attempt and one more follows every contact,
\* so a batch of n contacts with f failed attempts has paused f + n times when
\* the function returns, and no two registration calls are consecutive without
\* a pause between them.
C20_PausesAreFailedAttemptsPlusContacts ==
    /\ \A k \in FailedCalls : k + 1 \in SleepEntries
    /\ \A k \in CallEntries : k > 1 => k - 1 \in SleepEntries
    /\ pc \in {"attempt", "after_attempts"} =>
          Cardinality(SleepEntries) = Cardinality(FailedCalls) + (i - 1)
    /\ pc \in {"bulk_return", "returned"} =>
          Cardinality(SleepEntries) = Cardinality(FailedCalls) + Len(contact_ids)

\* a returned batch with failed attempts, a contact registered at its first
\* attempt and a contact given up on
C20_Witness ==
    /\ pc = "returned"
    /\ Len(contact_ids) = 3
    /\ Cardinality(FailedCalls) >= 2
    /\ result.success # <<>>
    /\ result.failed # <<>>
    /\ \E k \in CallEntries : log[k].ok /\ (k = 1 \/ log[k - 1].pos # log[k].pos)
    /\ Cardinality(SleepEntries) = Cardinality(FailedCalls) + 3

\* a bulk call made by the run has returned; contact_ids is still its input
AtBulkResult ==
    /\ caller = "auto_register"
    /\ result.returned
    /\ pc = "keys" \/ (pc = "done" /\ outcome = "processed")

\* C21: the result of a bulk call splits the call's input: the success and the
\* failed list are disjoint, together they hold one entry for each position of
\* contact_ids, each keeps the order of contact_ids, and they hold no id other
\* than those this call worked on, whatever earlier calls of the run returned.
C21_ResultPartitionsInput ==
    AtBulkResult =>
        /\ Range(result.success) \cap Range(result.failed) = {}
        /\ Range(result.success) \cup Range(result.failed) = Range(contact_ids)
        /\ Len(result.success) + Len(result.failed) = Len(contact_ids)
        /\ result.success = SelectSeqBy(contact_ids, Range(result.success))
        /\ result.failed = SelectSeqBy(contact_ids, Range(result.failed))
        /\ Range(result.success) \cup Range(result.failed)
              = {log[k].cid : k \in EntriesOfBulk(nbulk)}

\* the second bulk call of a run returned one contact, after a first call that
\* had returned two, one registered and one given up on
C21_Witness ==
    /\ AtBulkResult
    /\ nbulk = 2
    /\ echoed[1].successful = 1
    /\ echoed[1].failed = 1
    /\ contact_ids = <<3>>
    /\ result.success = <<3>>
    /\ result.failed = <<>>

\* C22 as stated: register_contacts_to_event returns for every input and every
\* pattern of call outcomes, and at no time has it made more than
\* len(contact_ids) * max_retries registration calls.
C22_TerminatesWithinProductOfArguments ==
    /\ <>(pc = "returned")
    /\ [](Cardinality(CallEntries) <= Len(contact_ids) * max_retries)

\* C22, amended: register_contacts_to_event returns for every input and every
\* pattern of call outcomes, and at no time has it made more than
\* len(contact_ids) * max(max_retries, 0) registration calls.
C22_TerminatesWithinCallBudget ==
    /\ <>(pc = "returned")
    /\ [](Cardinality(CallEntries) <= Len(contact_ids) * AttemptsPerContact)

\* a returned batch that used its whole budget: every attempt of every contact failed
C22_Witness ==
    /\ pc = "returned"
    /\ Len(contact_ids) = 3
    /\ max_retries = 3
    /\ Cardinality(CallEntries) = 9
    /\ FailedCalls = CallEntries

\* the contact record carries no custom-field entry with SystemCode "Groups",
\* be it that it has other entries only or no FieldValues at all
NoGroupsEntry(c) == \A f \in Range(c.FieldValues.fields) : f.SystemCode # "Groups"

\* lines 179-240 have been run, to their end or to an exception
ReconcileRun == Reconciled \/ (pc = "done" /\ outcome = "exception" /\ fetched = AllFetches)

\* C23: a contact without a "Groups" entry, or without FieldValues, makes the
\* reconciliation raise no error, is not eligible through the group path, and
\* is in the eligible pool exactly when its membership level is among the
\* level ids of the run.
C23_NoGroupsEntryNoErrorLevelOnly ==
    ReconcileRun =>
        \A k \in 1..Len(remoteContacts) :
            LET c == remoteContacts[k]
            IN  NoGroupsEntry(c) =>
                    /\ outcome # "exception"
                    /\ c.Id \in temp_ids <=>
                          (c.MembershipLevel.isDict
                              /\ c.MembershipLevel.Id \in membership_levels_ids)

\* the registrations of the event the remote side holds for a contact
RegistrationsOf(cid) == {k \in 1..Len(remoteRegs) : remoteRegs[k].Contact.Id = cid}
\* the registration calls made for a contact
CallsFor(cid) == {k \in CallEntries : log[k].cid = cid}

\* C24: delivery is at least once: every contact in the success list had a call
\* that returned success and holds at least one registration, and a contact
\* holds no more registrations than calls were made for it; a call that took
\* effect but was reported as failed is retried, so a contact can hold two.
C24_AtLeastOnceDelivery ==
    /\ \A cid \in Range(success_ids) :
          /\ \E k \in CallsFor(cid) : log[k].ok
          /\ RegistrationsOf(cid) # {}
    /\ \A cid \in Range(contact_ids) :
          Cardinality(RegistrationsOf(cid)) <= Cardinality(CallsFor(cid))

\* a contact in the success list of a returned batch holds two registrations:
\* its first call took effect but raised, its second call succeeded
C24_Witness ==
    /\ pc = "returned"
    /\ \E cid \in Range(result.success) :
          /\ Cardinality(RegistrationsOf(cid)) = 2
          /\ \E j, k \in CallsFor(cid) : j < k /\ ~log[j].ok /\ log[k].ok

\* the contact ids handed to the b-th bulk call of the run
ContactsOfBulk(b) == {log[k].cid : k \in EntriesOfBulk(b)}

\* C25: within one run no contact id is handed to more than one bulk call,
\* whatever the --use-status values are.
C25_ContactInAtMostOneBulkCall ==
    \A a, b \in 1..nbulk : a # b => ContactsOfBulk(a) \cap ContactsOfBulk(b) = {}

\* the record of the account for a contact id
RemoteContact(cid) == CHOOSE c \in Range(remoteContacts) : c.Id = cid
\* the ids of the event's registration types whose name holds the marker
MarkedTypeIds == {remoteEvent.RegistrationTypes[k].Id : k \in MarkedTypes}

\* C26: every registration call of a run names a contact of the account that is
\* in the eligible pool, is not among the fetched registrants and has a status
\* of the status filter, and carries the event id of the run and the id of the
\* event's one auto-register registration type.
C26_CallsOnlyForPlannedContacts ==
    \A k \in CallEntries :
        /\ \E c \in Range(remoteContacts) : c.Id = log[k].cid
        /\ log[k].cid \in temp_ids
        /\ log[k].cid \notin RegistrantContactIds
        /\ log[k].cid \in potential_registrant_ids
        /\ RemoteContact(log[k].cid).Status \in Range(use_status)
        /\ log[k].event = event_id
        /\ event_id = EventId
        /\ MarkedTypeIds = {log[k].regtype}

\* a confirmed run over an event whose first registration type is not the
\* auto-register one, with a registrant and an eligible contact outside the
\* filter left alone, has registered a contact
C26_Witness ==
    /\ pc = "done"
    /\ outcome = "processed"
    /\ \E k \in CallEntries : log[k].ok /\ log[k].regtype = 102
    /\ remoteEvent.RegistrationTypes[1].Id = 101
    /\ registrants # <<>>
    /\ \E cid \in potential_registrant_ids : \A k \in CallEntries : log[k].cid # cid

\* C27: a contact without a membership level is never eligible through the
\* level path, also when the rule has AvailableForAnyLevel = true: it is in the
\* eligible pool exactly when one of its groups is among the group ids of the run.
C27_NoLevelOnlyByGroup ==
    Reconciled =>
        \A k \in 1..Len(remoteContacts) :
            LET c == remoteContacts[k]
            IN  ~c.MembershipLevel.isDict =>
                    /\ c.Id \notin Range(MembersIdsByLevel(contacts, membership_levels_ids))
                    /\ c.Id \in temp_ids <=> GroupIdsOf(c) \cap membergroup_ids # {}

\* an event open to any level and to no group: the contact without a level stays
\* out of the pool while the members are in it
C27_Witness ==
    /\ Reconciled
    /\ remoteEvent.AccessControl.AvailableForAnyLevel
    /\ membergroup_ids = {}
    /\ temp_ids = {2, 3}
    /\ \E k \in 1..Len(remoteContacts) :
          /\ remoteContacts[k].Id = 1
          /\ ~remoteContacts[k].MembershipLevel.isDict
          /\ GroupIdsOf(remoteContacts[k]) # {}

\* C28: a run issues no registration call when the contact list it fetched, the
\* membership-level catalog, the member-group catalog or the event's list of
\* registration types is empty: it ends at the empty fetch, or at the selection
\* of the registration type, before any bulk call; this holds for an account
\* without member groups even when contacts are eligible by level.
C28_EmptyFetchIssuesNoCall ==
    /\ ("contacts" \in Range(fetched) /\ remoteContacts = <<>>)
          => pc = "done" /\ outcome = "no_contacts" /\ log = <<>> /\ nbulk = 0
    /\ ("levels" \in Range(fetched) /\ remoteLevels = <<>>)
          => pc = "done" /\ outcome = "no_levels" /\ log = <<>> /\ nbulk = 0
    /\ ("groups" \in Range(fetched) /\ remoteGroups = <<>>)
          => pc = "done" /\ outcome = "no_groups" /\ log = <<>> /\ nbulk = 0
    /\ ("event" \in Range(fetched) /\ remoteEvent.RegistrationTypes = <<>>)
          => /\ log = <<>>
             /\ nbulk = 0
             /\ pc \notin {"confirm", "keys", "attempt", "after_attempts", "bulk_return"}
             /\ SelectionDone => outcome = "no_regtypes"

\* a confirmed run over an account without member groups has ended without a
\* call, although the event is open to any level and contacts have a level of
\* the catalog
C28_Witness ==
    /\ pc = "done"
    /\ outcome = "no_groups"
    /\ confirm
    /\ remoteGroups = <<>>
    /\ remoteEvent.AccessControl.AvailableForAnyLevel
    /\ \E k \in 1..Len(contacts) : contacts[k].MembershipLevelId \in Keys(remoteLevels)
    /\ log = <<>>

\* C29: with max_retries zero or negative register_contacts_to_event makes no
\* registration call, and it returns every contact of its input in the failed
\* list, in input order, and none in the success list.
C29_NoRetriesNoCallAllFailed ==
    max_retries <= 0 =>
        /\ CallEntries = {}
        /\ remoteRegs = <<>>
        /\ success_ids = <<>>
        /\ pc = "returned" => result.success = <<>> /\ result.failed = contact_ids

\* a batch of three contacts returned with max_retries = 0
C29_Witness ==
    /\ pc = "returned"
    /\ max_retries = 0
    /\ Len(contact_ids) = 3
    /\ result.failed = contact_ids
    /\ Cardinality(SleepEntries) = 3

\* the State observed last: that of the last poll, or of the initial response
LastObservedState == IF polled = <<>> THEN first.State ELSE polled[Len(polled)]
\* the initial request has been answered
Answered == poll_pc \in {"loop", "returned", "timeout_error", "poll_error"}

\* C30: with a ResultUrl in the initial response the result URL is polled at
\* most max_wait times and never after a response whose State is "Complete"; the
\* function returns only when the State observed last is "Complete", and then
\* the response that carried it, and it raises TimeoutError when it leaves the
\* loop with another State, which is after max_wait polls. Without a ResultUrl
\* it returns the initial response and polls nothing.
C30_PollingBoundedStopsAtComplete ==
    /\ Len(polled) <= max_wait
    /\ attempts = Len(polled)
    /\ \A k \in 1..Len(polled) : k < Len(polled) => polled[k] # "Complete"
    /\ (Answered /\ first.State = "Complete") => polled = <<>>
    /\ (Answered /\ CarriesResultUrl(first)) =>
          /\ poll_pc = "returned" =>
                /\ LastObservedState = "Complete"
                /\ data.State = "Complete"
                /\ data.serial = Len(polled)
          /\ poll_pc = "timeout_error" =>
                LastObservedState # "Complete" /\ Len(polled) = max_wait
    /\ (Answered /\ ~CarriesResultUrl(first)) =>
          poll_pc = "returned" /\ polled = <<>> /\ data = first

\* a call that polled three times and returned the third response, the first
\* to say Complete
C30_Witness ==
    /\ poll_pc = "returned"
    /\ CarriesResultUrl(first)
    /\ first.State = "Processing"
    /\ polled = <<"Processing", "", "Complete">>
    /\ max_wait = 3
    /\ data.serial = 3

====
